---- MODULE Spec2Model ----
(***************************************************************************)
(* micom/problems.py: the cooperative tradeoff and species knockout        *)
(* drivers, run on one community model.                                    *)
(*                                                                         *)
(* Numbers.  Growth rates are integers (growth units).  The bounds of the  *)
(* community_objective variable are kept in fixed point, 1/10000 of a      *)
(* growth unit, so that 0.99 * fr * G and 1.01 * fr * G are exact;         *)
(* fractions are integers in percent.  Floating-point rounding is not      *)
(* modelled.  The upper bound None (unbounded) is the value None_.         *)
(***************************************************************************)
EXTENDS Integers, Sequences, FiniteSets, TLC

\* ---------------------------------------------------------------- bounds
MaxFractions == 2      \* longest fraction sequence passed to the tradeoff
MaxSpecies == 2        \* longest candidate list passed to the knockout

\* ------------------------------------------------------ the community
Species == {"A", "B"}
Members == <<"A", "B", "medium">>
Reactions == {"rA1", "rA2", "rB1"}
\* Reaction.community_id
community_id == [r \in Reactions |-> IF r = "rB1" THEN "B" ELSE "A"]
\* resource a member needs per unit of its growth; the community shares
\* two units of it
Cost == [sp \in Species |-> IF sp = "A" THEN 1 ELSE 2]

None_ == -1
NoMarker == "None"
OPTIMAL == "optimal"
INFEASIBLE == "infeasible"

FractionValues == {50, 100}

\* the growth rate taken whole, the fraction forgotten
TimesNoFraction(fr, x) == x * 10000

\* fr percent of the growth rate x, as a bound in fixed point (fr * min_growth)
Times(fr, x) == fr * x * 100
\* a growth rate as a bound in fixed point
Fixed(x) == x * 10000

VARIABLES
    com,        \* the Community: lb, ub of community_objective, objective,
                \* modification, objective_<sp> lower bounds, knocked-out reactions
    contexts,   \* com._contexts: the stack of HistoryManagers
    pc,         \* position in the running driver; "done" when it has ended,
                \* "idle" once the caller has taken the result
    args,       \* the arguments of the running call
    loc,        \* the locals of the running call
    solves,     \* the solver calls of the running call, in order
    outcome,    \* how the last call ended
    result,     \* what the last call returned
    pre         \* com as it was when the running call began

vars == <<com, contexts, pc, args, loc, solves, outcome, result, pre>>

\* ------------------------------------------------- scoped modification
\* One reversal action recorded in a HistoryManager.
Reversal(kind, key, num, str) == [kind |-> kind, key |-> key, num |-> num, str |-> str]

\* reset_min_community_growth(com)
reset_min_community_growth(m) == [m EXCEPT !.lb = 0, !.ub = None_]

\* Running one recorded reversal action.
Undo(m, r) ==
    CASE r.kind = "reset_min_community_growth" -> reset_min_community_growth(m)
      [] r.kind = "objective" -> [m EXCEPT !.objective = r.str]
      [] r.kind = "modification" -> [m EXCEPT !.modification = r.str]
      [] r.kind = "member_lb" -> [m EXCEPT !.memberLb[r.key] = r.num]
      [] r.kind = "knock_out" ->
            [m EXCEPT !.knocked = IF r.num = 1 THEN @ ELSE @ \ {r.key}]

\* HistoryManager.reset(): the recorded actions run last recorded first.
RECURSIVE Reset(_, _)
Reset(m, hist) ==
    IF hist = <<>> THEN m
    ELSE Reset(Undo(m, hist[Len(hist)]), SubSeq(hist, 1, Len(hist) - 1))

\* A model together with its context stack.
St(m, ctx) == [com |-> m, contexts |-> ctx]

\* with com: (entry) pushes a fresh HistoryManager.
Enter(st) == St(st.com, Append(st.contexts, <<>>))

\* with com: (exit, normal or by an exception) pops the innermost
\* HistoryManager and runs its reversals.
Exit(st) ==
    LET n == Len(st.contexts)
    IN St(Reset(st.com, st.contexts[n]), SubSeq(st.contexts, 1, n - 1))

\* An exception leaving every enclosing with block.
RECURSIVE Unwind(_)
Unwind(st) == IF st.contexts = <<>> THEN st ELSE Unwind(Exit(st))

\* get_context(com) followed by context(action): recorded only in a scope.
Record(st, r) ==
    IF st.contexts = <<>> THEN st
    ELSE LET n == Len(st.contexts)
         IN St(st.com, [st.contexts EXCEPT ![n] = Append(@, r)])

\* The objective written to the solver directly: nothing is recorded.
SetObjectiveUnrecorded(st, value) == St([st.com EXCEPT !.objective = value], st.contexts)

\* com.objective = value (the setter records the previous objective).
SetObjective(st, value) ==
    LET s == Record(st, Reversal("objective", "", 0, st.com.objective))
    IN St([s.com EXCEPT !.objective = value], s.contexts)

\* com.modification = value (a resettable property).
SetModification(st, value) ==
    LET s == Record(st, Reversal("modification", "", 0, st.com.modification))
    IN St([s.com EXCEPT !.modification = value], s.contexts)

\* com.variables.community_objective.lb = x / .ub = x: plain solver
\* variables, nothing is recorded.
SetLb(st, x) == St([st.com EXCEPT !.lb = x], st.contexts)
SetUb(st, x) == St([st.com EXCEPT !.ub = x], st.contexts)

\* ------------------------------------------------------------ micom.util
\* _format_min_growth(min_growth, species)
FormatMinGrowth(mg) == IF mg.scalar THEN [sp \in Species |-> mg.val] ELSE mg.per

\* _apply_min_growth(community, min_growth), one member after the other
RECURSIVE ApplyMinGrowth(_, _, _)
ApplyMinGrowth(st, mg, todo) ==
    IF todo = {} THEN st
    ELSE LET sp == CHOOSE s \in todo : TRUE
             s1 == Record(st, Reversal("member_lb", sp, st.com.memberLb[sp], ""))
         IN ApplyMinGrowth(St([s1.com EXCEPT !.memberLb[sp] = mg[sp]], s1.contexts),
                           mg, todo \ {sp})

\* ------------------------------------------------------------ the solver
\* Sum of a growth-rate assignment.
RECURSIVE Sum(_, _)
Sum(g, S) == IF S = {} THEN 0
             ELSE LET s == CHOOSE x \in S : TRUE IN g[s] + Sum(g, S \ {s})

RECURSIVE WeightedSum(_, _)
WeightedSum(g, S) == IF S = {} THEN 0
                     ELSE LET s == CHOOSE x \in S : TRUE
                          IN Cost[s] * g[s] + WeightedSum(g, S \ {s})

\* A member with a knocked-out reaction does not grow.
Alive(m, sp) == \A r \in Reactions : community_id[r] = sp => r \notin m.knocked

\* The growth rates the members can have, whatever the community bounds.
MemberRates(m) ==
    {g \in [Species -> 0..2] :
        /\ WeightedSum(g, Species) <= 2
        /\ \A sp \in Species : ~Alive(m, sp) => g[sp] = 0}

\* The feasible points of the model in state m.
Feasible(m) ==
    {g \in MemberRates(m) :
        /\ \A sp \in Species : g[sp] >= m.memberLb[sp]
        /\ Fixed(Sum(g, Species)) >= m.lb
        /\ m.ub # None_ => Fixed(Sum(g, Species)) <= m.ub}

\* The value optimize_with_retry returns: the optimum of the model's objective.
\* "growth_B" stands for an objective other than the community growth, here
\* the growth rate of member B.
ObjectiveValue(m) ==
    LET vals == {IF m.objective = "growth_B" THEN g["B"] ELSE Sum(g, Species) :
                    g \in Feasible(m)}
    IN CHOOSE v \in vals : \A w \in vals : w <= v

\* A float as a quotient n/d with d >= 0: d = 0 is inf, -inf or (n = 0) nan.
Cell(n, d) == [n |-> n, d |-> d]
NaN == Cell(0, 0)
IsNaN(c) == c.n = 0 /\ c.d = 0

\* a - b
Sub(a, b) == Cell(a.n * b.d - b.n * a.d, a.d * b.d)

\* a / b
Div(a, b) ==
    LET n == a.n * b.d
        d == a.d * b.n
    IN IF d < 0 THEN Cell(-n, -d) ELSE Cell(n, d)

MemberSet == {Members[i] : i \in 1..Len(Members)}

\* sol.members["growth_rate"] of a solution with member growth rates g: one
\* entry per member, the medium's is nan.
GrowthRates(g) == [mb \in MemberSet |-> IF mb = "medium" THEN NaN ELSE Cell(g[mb], 1)]

NoRates == [mb \in MemberSet |-> NaN]

\* The rows a solve of the model in state m can report: a feasible point
\* when the status is optimal, any growth rates otherwise.
Reported(m, status) ==
    {GrowthRates(g) : g \in IF status = OPTIMAL THEN Feasible(m) ELSE MemberRates(m)}

\* One entry of the log of solver calls.
SolveRec(call, idx, m, status, rates) ==
    [call |-> call, idx |-> idx, lb |-> m.lb, ub |-> m.ub, objective |-> m.objective,
     knocked |-> m.knocked, memberLb |-> m.memberLb, status |-> status, rates |-> rates]

\* ------------------------------------------------------------- numpy
\* np.sort(fraction)[::-1]
RECURSIVE InsertDesc(_, _)
InsertDesc(x, s) ==
    IF s = <<>> THEN <<x>>
    ELSE IF x >= Head(s) THEN <<x>> \o s
    ELSE <<Head(s)>> \o InsertDesc(x, Tail(s))

\* np.sort(fraction) without the reversal
RECURSIVE SortAsc(_)
SortAsc(s) ==
    IF s = <<>> THEN <<>>
    ELSE LET t == SortAsc(Tail(s))
             below == SelectSeq(t, LAMBDA x : x < Head(s))
             above == SelectSeq(t, LAMBDA x : x >= Head(s))
         IN below \o <<Head(s)>> \o above

RECURSIVE SortDesc(_)
SortDesc(s) == IF s = <<>> THEN <<>> ELSE InsertDesc(Head(s), SortDesc(Tail(s)))

\* ------------------------------------------------------ regularize_l2_norm
\* The regularizer without lines 50-52: no reversal of the bound is recorded.
regularize_l2_norm_unrecorded(st, min_growth) ==
    SetModification(SetObjective(SetLb(st, min_growth), "l2"), "l2 norm")

regularize_l2_norm(st, min_growth) ==
    LET s1 == SetLb(st, min_growth)
        s2 == Record(s1, Reversal("reset_min_community_growth", "", 0, ""))
        s3 == SetObjective(s2, "l2")
    IN SetModification(s3, "l2 norm")

\* ------------------------------------------------------------ arguments
SeqsUpTo(S, n) == UNION {[1..k -> S] : k \in 0..n}

ZeroGrowth == [sp \in Species |-> 0]

MinGrowthArgs ==
    {[scalar |-> TRUE, val |-> v, per |-> ZeroGrowth] : v \in 0..1}
    \cup {[scalar |-> FALSE, val |-> 0, per |-> [sp \in Species |-> IF sp = "B" THEN 1 ELSE 0]]}

FractionArgs ==
    {[sized |-> FALSE, vals |-> <<f>>] : f \in FractionValues}
    \cup {[sized |-> TRUE, vals |-> s] : s \in SeqsUpTo(FractionValues, MaxFractions)}

KnockoutSpecies == SeqsUpTo(Species, MaxSpecies)

Methods == {{}, {"change"}, {"relative"}, {"change", "relative"}}

\* diag is read by the last statement alone: it is varied for one method
KnockoutOptions ==
    [method : Methods, progress : BOOLEAN, diag : {TRUE}]
    \cup [method : {{"relative"}}, progress : {FALSE}, diag : {FALSE}]

KnockoutFractions == {50}

NoArgs == [driver |-> "none", min_growth |-> [scalar |-> TRUE, val |-> 0, per |-> ZeroGrowth],
           fraction |-> [sized |-> FALSE, vals |-> <<>>], species |-> <<>>,
           method |-> {}, progress |-> FALSE, diag |-> TRUE]

NoResult == [kind |-> "none", index |-> <<>>, columns |-> <<>>, rows |-> <<>>]

\* A Solution: its status and the call it came from.
Solution(status, call, idx, rates) ==
    [status |-> status, call |-> call, idx |-> idx, rates |-> rates]

NoLoc == [G |-> 0, min_growth |-> 0, fraction |-> <<>>, species |-> <<>>, idx |-> 0,
          results |-> <<>>, sol |-> Solution("none", "none", 0, NoRates), old |-> NoRates,
          ko |-> NoResult]

\* The community as constructed, and as a caller may have left it: another
\* objective, a lower bound on the community growth, a marker.
DefaultModel == [lb |-> 0, ub |-> None_, objective |-> "community_objective",
                 modification |-> NoMarker, memberLb |-> ZeroGrowth, knocked |-> {}]

InitialModels ==
    {DefaultModel,
     [DefaultModel EXCEPT !.objective = "growth_B"],
     [DefaultModel EXCEPT !.lb = Fixed(1)],
     [DefaultModel EXCEPT !.modification = "l2 norm"],
     [DefaultModel EXCEPT !.modification = "l2 norm", !.lb = Fixed(1)]}

\* ----------------------------------------------------------------- Init
Init ==
    /\ com \in InitialModels
    /\ contexts = <<>>
    /\ pc = "idle"
    /\ args = NoArgs
    /\ loc = NoLoc
    /\ solves = <<>>
    /\ outcome = "none"
    /\ result = NoResult
    /\ pre = com

\* How a call ends: the with blocks are left, the outcome is recorded.
Finish(st, how, res) ==
    /\ com' = Unwind(st).com
    /\ contexts' = Unwind(st).contexts
    /\ pc' = "done"
    /\ outcome' = how
    /\ result' = res

\* check_modification(community): TRUE when it raises AlreadyModifiedError
check_modification(m) == m.modification # NoMarker

\* A driver with no with block around its body.
BeginNoScope(next) ==
    IF check_modification(com)
    THEN Finish(St(com, contexts), "AlreadyModifiedError", NoResult)
    ELSE /\ UNCHANGED <<com, contexts>>
         /\ pc' = next
         /\ outcome' = "running"
         /\ result' = NoResult

\* The first two lines of both drivers:
\* with community as com: check_modification(community)
Begin(next) ==
    LET st == Enter(St(com, contexts))
    IN IF check_modification(st.com)
       THEN Finish(st, "AlreadyModifiedError", NoResult)
       ELSE /\ com' = st.com
            /\ contexts' = st.contexts
            /\ pc' = next
            /\ outcome' = "running"
            /\ result' = NoResult

\* ------------------------------------------------- cooperative_tradeoff
\* A tradeoff driver that does not call check_modification.
CT_CallNoCheck ==
    /\ pc = "idle"
    /\ \E mg \in MinGrowthArgs, fr \in FractionArgs :
          args' = [NoArgs EXCEPT !.driver = "cooperative_tradeoff",
                                 !.min_growth = mg, !.fraction = fr]
    /\ pre' = com
    /\ loc' = NoLoc
    /\ solves' = <<>>
    /\ com' = Enter(St(com, contexts)).com
    /\ contexts' = Enter(St(com, contexts)).contexts
    /\ pc' = "ct_baseline"
    /\ outcome' = "running"
    /\ result' = NoResult

\* lines 66-67: with community as com: check_modification(community)
CT_Call ==
    /\ pc = "idle"
    /\ \E mg \in MinGrowthArgs, fr \in FractionArgs :
          args' = [NoArgs EXCEPT !.driver = "cooperative_tradeoff",
                                 !.min_growth = mg, !.fraction = fr]
    /\ pre' = com
    /\ loc' = NoLoc
    /\ solves' = <<>>
    /\ Begin("ct_baseline")

\* A baseline that catches the OptimizationError and goes on with a
\* community growth rate of zero.
CT_BaselineCaught ==
    /\ pc = "ct_baseline"
    /\ LET s1 == ApplyMinGrowth(St(com, contexts), FormatMinGrowth(args.min_growth), Species)
           s2 == SetObjective(s1, "community_objective")
       IN \E ok \in BOOLEAN :
             /\ com' = s2.com
             /\ contexts' = s2.contexts
             /\ IF ok /\ Feasible(s2.com) # {}
                THEN /\ loc' = [loc EXCEPT !.G = ObjectiveValue(s2.com)]
                     /\ solves' = Append(solves, SolveRec("optimize_with_retry", 0, s2.com, OPTIMAL, NoRates))
                ELSE /\ loc' = [loc EXCEPT !.G = 0]
                     /\ solves' = Append(solves, SolveRec("optimize_with_retry", 0, s2.com, "error", NoRates))
             /\ pc' = "ct_regularize"
    /\ UNCHANGED <<args, outcome, result, pre>>

\* lines 68-73: min growth, objective, optimize_with_retry
CT_Baseline ==
    /\ pc = "ct_baseline"
    /\ LET s1 == ApplyMinGrowth(St(com, contexts), FormatMinGrowth(args.min_growth), Species)
           s2 == SetObjective(s1, "community_objective")
       IN \E ok \in BOOLEAN :
             IF ok /\ Feasible(s2.com) # {}
             THEN /\ com' = s2.com
                  /\ contexts' = s2.contexts
                  /\ loc' = [loc EXCEPT !.G = ObjectiveValue(s2.com)]
                  /\ solves' = Append(solves, SolveRec("optimize_with_retry", 0, s2.com, OPTIMAL, NoRates))
                  /\ pc' = "ct_regularize"
                  /\ UNCHANGED <<outcome, result>>
             ELSE /\ solves' = Append(solves, SolveRec("optimize_with_retry", 0, s2.com, "error", NoRates))
                  /\ Finish(s2, "OptimizationError", NoResult)
                  /\ UNCHANGED loc
    /\ UNCHANGED <<args, pre>>

\* lines 75-82: the fractions in descending order, the regularizer
CT_Regularize ==
    /\ pc = "ct_regularize"
    /\ LET s1 == regularize_l2_norm(St(com, contexts), 0)
       IN /\ com' = s1.com
          /\ contexts' = s1.contexts
    /\ loc' = [loc EXCEPT !.fraction = IF args.fraction.sized
                                          THEN SortDesc(args.fraction.vals)
                                          ELSE args.fraction.vals,
                          !.idx = 1, !.results = <<>>]
    /\ pc' = "ct_loop"
    /\ UNCHANGED <<args, solves, outcome, result, pre>>

\* lines 83-86 (and 90 when the solve is optimal): the primary solve of a fraction
CT_Solve ==
    /\ pc = "ct_loop"
    /\ loc.idx <= Len(loc.fraction)
    /\ LET fr == loc.fraction[loc.idx]
           s1 == SetLb(St(com, contexts), Times(fr, loc.G))
       IN /\ com' = s1.com
          /\ contexts' = s1.contexts
          /\ \E status \in {OPTIMAL, INFEASIBLE} :
                /\ status = OPTIMAL => Feasible(s1.com) # {}
                /\ solves' = Append(solves, SolveRec("solve", loc.idx, s1.com, status, NoRates))
                /\ IF status # OPTIMAL
                   THEN /\ loc' = [loc EXCEPT !.sol = Solution(status, "solve", loc.idx, NoRates)]
                        /\ pc' = "ct_crossover"
                   ELSE /\ loc' = [loc EXCEPT
                              !.sol = Solution(status, "solve", loc.idx, NoRates),
                              !.results = Append(@, [tradeoff |-> fr,
                                                     solution |-> Solution(status, "solve", loc.idx, NoRates)]),
                              !.idx = @ + 1]
                        /\ pc' = "ct_loop"
    /\ UNCHANGED <<args, outcome, result, pre>>

\* Recovery bounds ten percent around the target instead of one.
CrossoverBoundsWide(st, fr, G) == SetUb(SetLb(st, 90 * fr * G), 110 * fr * G)

\* lines 87-88: the bounds 0.99 * fr * min_growth and 1.01 * fr * min_growth
CrossoverBounds(st, fr, G) == SetUb(SetLb(st, 99 * fr * G), 101 * fr * G)

\* lines 87-90: the bounds narrowed around the target, crossover
CT_Crossover ==
    /\ pc = "ct_crossover"
    /\ LET fr == loc.fraction[loc.idx]
           s2 == CrossoverBounds(St(com, contexts), fr, loc.G)
       IN /\ com' = s2.com
          /\ contexts' = s2.contexts
          /\ \E status \in {OPTIMAL, INFEASIBLE} :
                /\ status = OPTIMAL => Feasible(s2.com) # {}
                /\ solves' = Append(solves, SolveRec("crossover", loc.idx, s2.com, status, NoRates))
                /\ loc' = [loc EXCEPT
                      !.sol = Solution(status, "crossover", loc.idx, NoRates),
                      !.results = Append(@, [tradeoff |-> fr,
                                             solution |-> Solution(status, "crossover", loc.idx, NoRates)]),
                      !.idx = @ + 1]
    /\ pc' = "ct_loop"
    /\ UNCHANGED <<args, outcome, result, pre>>

\* lines 91-94: the return value; the with block is left
CT_Return ==
    /\ pc = "ct_loop"
    /\ loc.idx > Len(loc.fraction)
    /\ Finish(St(com, contexts), "returned",
              IF Len(loc.results) = 1
              THEN [NoResult EXCEPT !.kind = "Solution", !.rows = <<loc.results[1].solution>>]
              ELSE [NoResult EXCEPT !.kind = "DataFrame", !.columns = <<"tradeoff", "solution">>,
                                    !.rows = loc.results])
    /\ UNCHANGED <<args, loc, solves, pre>>

\* ----------------------------------------------------- knockout_species
\* Knockouts written past the scope: nothing is recorded for them.
KnockOutUnrecorded(st, todo) == St([st.com EXCEPT !.knocked = @ \cup todo], st.contexts)

\* lines 119-120: r.knock_out() for every reaction of species sp; each
\* records the reaction's previous bounds.
RECURSIVE KnockOut(_, _)
KnockOut(st, todo) ==
    IF todo = {} THEN st
    ELSE LET r == CHOOSE x \in todo : TRUE
             s1 == Record(st, Reversal("knock_out", r,
                                       IF r \in st.com.knocked THEN 1 ELSE 0, ""))
         IN KnockOut(St([s1.com EXCEPT !.knocked = @ \cup {r}], s1.contexts), todo \ {r})

\* The transform with its two steps exchanged: relative first, change second.
TransformRelativeFirst(method, new, old) ==
    LET n1 == IF "relative" \in method
              THEN [mb \in MemberSet |-> Div(new[mb], old[mb])] ELSE new
    IN IF "change" \in method
       THEN [mb \in MemberSet |-> Sub(n1[mb], old[mb])] ELSE n1

\* lines 137-140: the reporting transform of a row
Transform(method, new, old) ==
    LET n1 == IF "change" \in method
              THEN [mb \in MemberSet |-> Sub(new[mb], old[mb])] ELSE new
    IN IF "relative" \in method
       THEN [mb \in MemberSet |-> Div(n1[mb], old[mb])] ELSE n1

\* pd.DataFrame(results, index=species).drop("medium", 1)
Table(results, species) ==
    [kind |-> "DataFrame", index |-> species,
     columns |-> SelectSeq(Members, LAMBDA mb : mb # "medium"),
     rows |-> [i \in 1..Len(results) |->
                  [mb \in MemberSet \ {"medium"} |-> results[i][mb]]]]

\* np.fill_diagonal(ko.values, np.NaN): the cells at (i, i), by position
FillDiagonal(t) ==
    [t EXCEPT !.rows = [i \in 1..Len(t.rows) |->
        [mb \in DOMAIN t.rows[i] |->
            IF i <= Len(t.columns) /\ t.columns[i] = mb THEN NaN ELSE t.rows[i][mb]]]]

\* tqdm(species, unit="knockout(s)"): the same items in the same order
tqdm(species) == species

\* lines 100-101: with community as com: check_modification(com)
KO_Call ==
    /\ pc = "idle"
    /\ \E sp \in KnockoutSpecies, fr \in KnockoutFractions, opt \in KnockoutOptions :
          args' = [NoArgs EXCEPT !.driver = "knockout_species", !.species = sp,
                                 !.fraction = [sized |-> FALSE, vals |-> <<fr>>],
                                 !.method = opt.method, !.progress = opt.progress,
                                 !.diag = opt.diag]
    /\ pre' = com
    /\ loc' = NoLoc
    /\ solves' = <<>>
    /\ Begin("ko_baseline")

\* lines 102-106: zero min growth, optimize_with_retry
KO_Baseline ==
    /\ pc = "ko_baseline"
    /\ LET s1 == ApplyMinGrowth(St(com, contexts),
                                FormatMinGrowth([scalar |-> TRUE, val |-> 0, per |-> ZeroGrowth]),
                                Species)
       IN \E ok \in BOOLEAN :
             IF ok /\ Feasible(s1.com) # {}
             THEN /\ com' = s1.com
                  /\ contexts' = s1.contexts
                  /\ loc' = [loc EXCEPT !.G = ObjectiveValue(s1.com)]
                  /\ solves' = Append(solves, SolveRec("optimize_with_retry", 0, s1.com, OPTIMAL, NoRates))
                  /\ pc' = "ko_reference"
                  /\ UNCHANGED <<outcome, result>>
             ELSE /\ solves' = Append(solves, SolveRec("optimize_with_retry", 0, s1.com, "error", NoRates))
                  /\ Finish(s1, "OptimizationError", NoResult)
                  /\ UNCHANGED loc
    /\ UNCHANGED <<args, pre>>

\* lines 107-112: the regularizer, the reference row old, the progress bar
KO_Reference ==
    /\ pc = "ko_reference"
    /\ LET fraction == args.fraction.vals[1]
           s1 == regularize_l2_norm(St(com, contexts), Times(fraction, loc.G))
       IN /\ com' = s1.com
          /\ contexts' = s1.contexts
          /\ \E status \in {OPTIMAL, INFEASIBLE} :
                /\ status = OPTIMAL => Feasible(s1.com) # {}
                /\ \E rates \in Reported(s1.com, status) :
                      /\ solves' = Append(solves, SolveRec("optimize", 0, s1.com, status, rates))
                      /\ loc' = [loc EXCEPT !.old = rates, !.results = <<>>, !.idx = 1,
                                            !.species = IF args.progress THEN tqdm(args.species)
                                                        ELSE args.species]
    /\ pc' = "ko_loop"
    /\ UNCHANGED <<args, outcome, result, pre>>

\* lines 113-127: the species' scope, its knockouts, the community growth
\* rate after the knockout
KO_Knock ==
    /\ pc = "ko_loop"
    /\ loc.idx <= Len(loc.species)
    /\ LET sp == loc.species[loc.idx]
           s1 == Enter(St(com, contexts))
           s2 == SetUb(SetLb(s1, 0), Fixed(loc.G))
           s3 == KnockOut(s2, {r \in Reactions : community_id[r] = sp})
           s4 == SetObjective(Enter(s3), "community_objective")
       IN \E ok \in BOOLEAN :
             IF ok /\ Feasible(s4.com) # {}
             THEN /\ com' = Exit(s4).com
                  /\ contexts' = Exit(s4).contexts
                  /\ loc' = [loc EXCEPT !.min_growth = ObjectiveValue(s4.com)]
                  /\ solves' = Append(solves, SolveRec("optimize_with_retry", loc.idx, s4.com, OPTIMAL, NoRates))
                  /\ pc' = "ko_solve"
                  /\ UNCHANGED <<outcome, result>>
             ELSE /\ solves' = Append(solves, SolveRec("optimize_with_retry", loc.idx, s4.com, "error", NoRates))
                  /\ Finish(s4, "OptimizationError", NoResult)
                  /\ UNCHANGED loc
    /\ UNCHANGED <<args, pre>>

\* lines 128-129: the bounds fraction * min_growth and min_growth
SpeciesBounds(st, fraction, min_growth) ==
    SetUb(SetLb(st, Times(fraction, min_growth)), Fixed(min_growth))

\* Recovery bounds one percent around the target, as the tradeoff driver's.
RecoveryBoundsAroundTarget(st, fraction, min_growth) ==
    SetUb(SetLb(st, 99 * fraction * min_growth), 101 * fraction * min_growth)

\* lines 132-134: the bounds 0 and fraction * min_growth
RecoveryBounds(st, fraction, min_growth) ==
    SetUb(SetLb(st, 0), Times(fraction, min_growth))

\* lines 128-131 (and 136-141 when the solve is optimal): the species' solve
KO_Solve ==
    /\ pc = "ko_solve"
    /\ LET fraction == args.fraction.vals[1]
           s1 == SpeciesBounds(St(com, contexts), fraction, loc.min_growth)
       IN \E status \in {OPTIMAL, INFEASIBLE} :
             /\ status = OPTIMAL => Feasible(s1.com) # {}
             /\ IF status # OPTIMAL
                THEN /\ com' = s1.com
                     /\ contexts' = s1.contexts
                     /\ solves' = Append(solves, SolveRec("optimize", loc.idx, s1.com, status, NoRates))
                     /\ loc' = [loc EXCEPT !.sol = Solution(status, "optimize", loc.idx, NoRates)]
                     /\ pc' = "ko_crossover"
                ELSE \E rates \in Reported(s1.com, status) :
                     /\ com' = Exit(s1).com
                     /\ contexts' = Exit(s1).contexts
                     /\ solves' = Append(solves, SolveRec("optimize", loc.idx, s1.com, status, rates))
                     /\ loc' = [loc EXCEPT
                           !.sol = Solution(status, "optimize", loc.idx, rates),
                           !.results = Append(@, Transform(args.method, rates, loc.old)),
                           !.idx = @ + 1]
                     /\ pc' = "ko_loop"
    /\ UNCHANGED <<args, outcome, result, pre>>

\* lines 132-141: the bounds of the recovery, crossover, the row
KO_Crossover ==
    /\ pc = "ko_crossover"
    /\ LET fraction == args.fraction.vals[1]
           s1 == RecoveryBounds(St(com, contexts), fraction, loc.min_growth)
       IN \E status \in {OPTIMAL, INFEASIBLE} :
             /\ status = OPTIMAL => Feasible(s1.com) # {}
             /\ \E rates \in Reported(s1.com, status) :
                   /\ com' = Exit(s1).com
                   /\ contexts' = Exit(s1).contexts
                   /\ solves' = Append(solves, SolveRec("crossover", loc.idx, s1.com, status, rates))
                   /\ loc' = [loc EXCEPT
                         !.sol = Solution(status, "crossover", loc.idx, rates),
                         !.results = Append(@, Transform(args.method, rates, loc.old)),
                         !.idx = @ + 1]
    /\ pc' = "ko_loop"
    /\ UNCHANGED <<args, outcome, result, pre>>

\* A return whose index is read from a progress bar that yields nothing the
\* second time it is iterated.
KO_ReturnExhausted ==
    /\ pc = "ko_loop"
    /\ loc.idx > Len(loc.species)
    /\ LET index == IF args.progress THEN <<>> ELSE loc.species
           ko == Table(loc.results, index)
       IN /\ loc' = [loc EXCEPT !.ko = IF ~args.diag THEN FillDiagonal(ko) ELSE ko]
          /\ Finish(St(com, contexts), "returned", Table(loc.results, index))
    /\ UNCHANGED <<args, solves, pre>>

\* lines 143-147: the table ko, and the table returned
KO_Return ==
    /\ pc = "ko_loop"
    /\ loc.idx > Len(loc.species)
    /\ LET ko == Table(loc.results, loc.species)
       IN /\ loc' = [loc EXCEPT !.ko = IF ~args.diag THEN FillDiagonal(ko) ELSE ko]
          /\ Finish(St(com, contexts), "returned", Table(loc.results, loc.species))
    /\ UNCHANGED <<args, solves, pre>>

\* regularize_l2_norm(community, min_growth) called on the community itself,
\* outside any with block: get_context gives None at line 50.
RL_Call ==
    /\ pc = "idle"
    /\ \E mg \in 0..1 :
          /\ args' = [NoArgs EXCEPT !.driver = "regularize_l2_norm",
                                    !.min_growth = [scalar |-> TRUE, val |-> mg, per |-> ZeroGrowth]]
          /\ LET s1 == regularize_l2_norm(St(com, contexts), Fixed(mg))
             IN /\ com' = s1.com
                /\ contexts' = s1.contexts
    /\ pre' = com
    /\ loc' = NoLoc
    /\ solves' = <<>>
    /\ pc' = "done"
    /\ outcome' = "regularized"
    /\ result' = NoResult

\* The caller takes what the call returned or raised; the call's frame and
\* the record of its solves are gone, the model stays as the call left it.
Discard ==
    /\ pc = "done"
    /\ pc' = "idle"
    /\ args' = NoArgs
    /\ loc' = NoLoc
    /\ solves' = <<>>
    /\ result' = NoResult
    /\ UNCHANGED <<com, contexts, outcome, pre>>

Next ==
    \/ Discard
    \/ CT_Call
    \/ CT_Baseline
    \/ CT_Regularize
    \/ CT_Solve
    \/ CT_Crossover
    \/ CT_Return
    \/ KO_Call
    \/ KO_Baseline
    \/ KO_Reference
    \/ KO_Knock
    \/ KO_Solve
    \/ KO_Crossover
    \/ KO_Return
    \/ RL_Call

Spec == Init /\ [][Next]_vars

\* ------------------------------------------------------------- the claims
Tradeoff == args.driver = "cooperative_tradeoff"
Knockout == args.driver = "knockout_species"
Driver == Tradeoff \/ Knockout
Returned == pc = "done" /\ outcome = "returned"

\* number of entries of the sequence s that satisfy Test
Count(s, Test(_)) == Cardinality({i \in 1..Len(s) : Test(s[i])})

\* C1: when a driver call has ended, by a return or by either error, the
\* bounds of community_objective and the objective are what they were when
\* the call began, whatever they were then.
C1_FrameRestored ==
    (pc = "done" /\ Driver) =>
        /\ com.lb = pre.lb
        /\ com.ub = pre.ub
        /\ com.objective = pre.objective

\* C2 as stated: a scalar fraction gives a bare Solution, a sequence of
\* fractions of any length gives a table with one row per input fraction,
\* the rows in descending order of the fraction.
C2_SequenceGivesTable ==
    (Returned /\ Tradeoff) =>
        IF ~args.fraction.sized
        THEN result.kind = "Solution"
        ELSE /\ result.kind = "DataFrame"
             /\ Len(result.rows) = Len(args.fraction.vals)
             /\ \A f \in FractionValues :
                   Count(result.rows, LAMBDA r : r.tradeoff = f)
                       = Count(args.fraction.vals, LAMBDA x : x = f)
             /\ \A i, j \in 1..Len(result.rows) :
                   i < j => result.rows[i].tradeoff >= result.rows[j].tradeoff

\* C2 amended: a scalar fraction and a sequence of exactly one fraction both
\* give a bare Solution; a sequence of any other length gives a table with
\* one row per input fraction, the rows in descending order of the fraction.
C2_ReturnShape ==
    (Returned /\ Tradeoff) =>
        IF ~args.fraction.sized \/ Len(args.fraction.vals) = 1
        THEN /\ result.kind = "Solution"
             /\ result.rows = <<loc.sol>>
        ELSE /\ result.kind = "DataFrame"
             /\ Len(result.rows) = Len(args.fraction.vals)
             /\ \A f \in FractionValues :
                   Count(result.rows, LAMBDA r : r.tradeoff = f)
                       = Count(args.fraction.vals, LAMBDA x : x = f)
             /\ \A i, j \in 1..Len(result.rows) :
                   i < j => result.rows[i].tradeoff >= result.rows[j].tradeoff

\* a table returned for a sequence given in ascending order
C2_Witness ==
    /\ Returned /\ Tradeoff
    /\ args.fraction = [sized |-> TRUE, vals |-> <<50, 100>>]
    /\ result.kind = "DataFrame"
    /\ result.rows[1].tradeoff = 100

\* C3: the table knockout_species returns has no "medium" column and, when
\* diag is False, every cell whose row species is its column species is nan.
C3_DiagonalNaN ==
    (Returned /\ Knockout) =>
        /\ \A c \in 1..Len(result.columns) : result.columns[c] # "medium"
        /\ ~args.diag =>
              \A i \in 1..Len(result.rows) : IsNaN(result.rows[i][result.index[i]])

\* C4: a driver called on a model whose marker is set ends at once with
\* AlreadyModifiedError; nothing of the model has changed and nothing was solved.
C4_RejectedUntouched ==
    (pc # "idle" /\ Driver /\ check_modification(pre)) =>
        /\ pc = "done"
        /\ outcome = "AlreadyModifiedError"
        /\ com = pre
        /\ contexts = <<>>
        /\ solves = <<>>
        /\ result = NoResult

\* a rejected call on a model that carries a marker and a lower bound
C4_Witness ==
    /\ pc = "done"
    /\ outcome = "AlreadyModifiedError"
    /\ pre.modification = "l2 norm"
    /\ pre.lb = Fixed(1)
    /\ Knockout

\* the fraction of the tradeoff's solver call e
FractionOf(e) == loc.fraction[e.idx]

\* C5: in cooperative_tradeoff a primary solve that is not optimal is followed
\* by exactly one crossover, made with the bounds [0.99 fr G, 1.01 fr G], and
\* the crossover's Solution is the one recorded for the fraction, whatever its
\* status, the next solver call being the next fraction's primary solve; an
\* optimal primary solve is recorded itself, no crossover follows it and the
\* step leaves the bounds as they were at the solve.
C5_CrossoverOnce ==
    Tradeoff =>
        \A k \in 1..Len(solves) :
            LET e == solves[k]
                last == k = Len(solves)
            IN /\ (e.call = "solve" /\ e.status # OPTIMAL) =>
                     /\ last => pc = "ct_crossover"
                     /\ ~last =>
                           /\ solves[k + 1].call = "crossover"
                           /\ solves[k + 1].idx = e.idx
                           /\ solves[k + 1].lb = 99 * FractionOf(e) * loc.G
                           /\ solves[k + 1].ub = 101 * FractionOf(e) * loc.G
               /\ (e.call = "solve" /\ e.status = OPTIMAL) =>
                     /\ loc.results[e.idx].solution = Solution(OPTIMAL, "solve", e.idx, NoRates)
                     /\ e.ub = solves[k - 1].ub
                     /\ (last /\ pc = "ct_loop") => (com.lb = e.lb /\ com.ub = e.ub)
                     /\ ~last => (solves[k + 1].call = "solve" /\ solves[k + 1].idx = e.idx + 1)
               /\ e.call = "crossover" =>
                     /\ solves[k - 1].call = "solve"
                     /\ solves[k - 1].idx = e.idx
                     /\ solves[k - 1].status # OPTIMAL
                     /\ loc.results[e.idx].solution = Solution(e.status, "crossover", e.idx, NoRates)
                     /\ ~last => (solves[k + 1].call = "solve" /\ solves[k + 1].idx = e.idx + 1)

\* a sweep of two fractions: the first recovered by a crossover that is itself
\* not optimal, the second solved at once
C5_Witness ==
    /\ Returned /\ Tradeoff
    /\ Len(result.rows) = 2
    /\ result.rows[1].solution = Solution(INFEASIBLE, "crossover", 1, NoRates)
    /\ result.rows[2].solution = Solution(OPTIMAL, "solve", 2, NoRates)
    /\ Len(solves) = 4

\* C6: at the primary solve of every fraction of the sweep the upper bound of
\* community_objective is unbounded.
C6_PrimaryUnbounded ==
    Tradeoff => \A k \in 1..Len(solves) : solves[k].call = "solve" => solves[k].ub = None_

\* the model of the call's start with the per-member lower bounds mg and the
\* objective "maximize community_objective"
BaselineModel(mg) == [pre EXCEPT !.memberLb = mg, !.objective = "community_objective"]

\* the primary solves run in descending order of their fractions
DescendingSolves ==
    \A j, k \in 1..Len(solves) :
        (j < k /\ solves[j].call = "solve" /\ solves[k].call = "solve") =>
            /\ solves[j].idx < solves[k].idx
            /\ FractionOf(solves[j]) >= FractionOf(solves[k])

\* C7 as stated: the fractions are solved in descending order and at each
\* primary solve the lower bound is fr * G, G the optimal community growth rate
\* with zero minimum per-member growth.
C7_LowerBoundZeroMinGrowth ==
    Tradeoff =>
        /\ DescendingSolves
        /\ \A k \in 1..Len(solves) :
              solves[k].call = "solve" =>
                  solves[k].lb = FractionOf(solves[k]) * ObjectiveValue(BaselineModel(ZeroGrowth)) * 100

\* C7 amended: the fractions are solved in descending order and at each primary
\* solve the lower bound is fr * G, G the optimal community growth rate with the
\* caller's min_growth applied as the per-member lower bounds.
C7_LowerBound ==
    Tradeoff =>
        /\ DescendingSolves
        /\ \A k \in 1..Len(solves) :
              solves[k].call = "solve" =>
                  solves[k].lb = FractionOf(solves[k])
                                   * ObjectiveValue(BaselineModel(FormatMinGrowth(args.min_growth)))
                                   * 100

\* fractions [0.5, 1.0] with a minimum growth for member B: G is 1, the lower
\* bounds are 1.0 and then 0.5
C7_Witness ==
    /\ Returned /\ Tradeoff
    /\ args.fraction.vals = <<50, 100>>
    /\ args.min_growth.per["B"] = 1
    /\ pre = DefaultModel
    /\ Len(solves) = 3
    /\ solves[2].lb = Fixed(1)
    /\ 2 * solves[3].lb = Fixed(1)

\* C8: an OptimizationError of optimize_with_retry ends the driver call: the
\* failed solve is the last one of the call, the call ends with that error
\* and returns nothing.
C8_ErrorAborts ==
    \A k \in 1..Len(solves) :
        solves[k].status = "error" =>
            /\ solves[k].call = "optimize_with_retry"
            /\ k = Len(solves)
            /\ pc = "done"
            /\ outcome = "OptimizationError"
            /\ result = NoResult

\* the error raised for the second candidate, after a first one was processed
C8_Witness ==
    /\ pc = "done" /\ Knockout
    /\ outcome = "OptimizationError"
    /\ Len(loc.results) = 1
    /\ solves[Len(solves)].idx = 2
    /\ solves[Len(solves)].status = "error"

\* the row of the last solver call made for the i-th candidate
RawRow(i) ==
    LET ks == {k \in 1..Len(solves) : solves[k].idx = i
                                      /\ solves[k].call \in {"optimize", "crossover"}}
    IN solves[CHOOSE k \in ks : \A j \in ks : j <= k].rates

\* the reference row: that of the solve after the regularizer was installed
ReferenceRow == solves[2].rates

\* C9: the row reported for a species is new, new - old, new / old or
\* (new - old) / old according to the flags of method, old being the one
\* reference row, unchanged by the transform.
C9_ReportedRow ==
    (Knockout /\ Len(solves) >= 2) =>
        /\ loc.old = ReferenceRow
        /\ \A i \in 1..Len(loc.results) : \A sp \in Species :
              LET new == RawRow(i)[sp].n
                  old == ReferenceRow[sp].n
                  got == loc.results[i][sp]
              IN /\ args.method = {} => (got.n = new /\ got.d = 1)
                 /\ args.method = {"change"} => (got.n = new - old /\ got.d = 1)
                 /\ args.method = {"relative"} => (got.n = new /\ got.d = old)
                 /\ args.method = {"change", "relative"} => (got.n = new - old /\ got.d = old)

\* old = {A: 2, B: 0}, new = {A: 0, B: 1} under "change,relative": the row is
\* {A: (0 - 2) / 2, B: (1 - 0) / 0}
C9_Witness ==
    /\ Returned /\ Knockout
    /\ args.method = {"change", "relative"}
    /\ loc.old["A"] = Cell(2, 1)
    /\ Len(result.rows) = 2
    /\ result.rows[1]["A"] = Cell(-2, 2)
    /\ result.rows[1]["B"] = Cell(1, 0)

\* C10: when a driver called on an unmodified model has ended, by a return or
\* by an error, the marker is again what it was, and the next driver call on
\* the model is not rejected with AlreadyModifiedError.
C10_MarkerCleared ==
    [][/\ (pc' = "done" /\ Driver' /\ ~check_modification(pre'))
             => com'.modification = pre'.modification
       /\ (/\ pc = "idle"
           /\ outcome \in {"returned", "OptimizationError"}
           /\ ~check_modification(pre)
           /\ pc' # "idle")
             => outcome' # "AlreadyModifiedError"]_vars

\* a knockout ended by an error after the regularizer had set the marker
C10_Witness ==
    /\ pc = "done" /\ Knockout
    /\ outcome = "OptimizationError"
    /\ pre.modification = NoMarker
    /\ com.modification = NoMarker
    /\ Len(solves) = 3
    /\ solves[2].objective = "l2"

\* the reactions of the i-th candidate of the call
ReactionsOf(i) == {r \in Reactions : community_id[r] = args.species[i]}

\* the table the call returns when progress is False: the candidates as given
\* are its index, the members but the medium its columns, its i-th row is the
\* transformed row of the last solver call made for the i-th candidate
PlainTable ==
    [kind |-> "DataFrame", index |-> args.species, columns |-> <<"A", "B">>,
     rows |-> [i \in 1..Len(args.species) |->
                  [sp \in Species |-> Transform(args.method, RawRow(i), ReferenceRow)[sp]]]]

\* C11: the progress flag of knockout_species is observational.  Whatever the
\* flag, the loop runs over the candidates as given, the solver calls of its
\* i-th iteration are made with the reactions of the i-th candidate knocked
\* out, and the table returned is the one determined by the candidate list,
\* the method and the solver's answers alone: the call with progress=True and
\* the call with progress=False cannot be told apart by mutations, solves or result.
C11_ProgressObservational ==
    Knockout =>
        /\ pc \in {"ko_loop", "ko_solve", "ko_crossover"} => loc.species = args.species
        /\ \A k \in 1..Len(solves) :
              solves[k].idx >= 1 =>
                  /\ solves[k].idx <= Len(args.species)
                  /\ solves[k].knocked = ReactionsOf(solves[k].idx)
        /\ Returned => result = PlainTable

\* a table of two rows returned by a call with progress=True
C11_Witness ==
    /\ Returned /\ Knockout
    /\ args.progress
    /\ args.species = <<"B", "A">>
    /\ result.index = <<"B", "A">>
    /\ Len(result.rows) = 2

\* C12: the solver calls made for a candidate run with exactly the reactions
\* of that candidate knocked out, the knockouts of the earlier candidates
\* having been reverted; between two iterations and once the driver has
\* returned or raised, no reaction is knocked out.
C12_KnockoutsScoped ==
    Knockout =>
        /\ \A k \in 1..Len(solves) :
              /\ solves[k].idx = 0 => solves[k].knocked = {}
              /\ solves[k].idx >= 1 => solves[k].knocked = ReactionsOf(solves[k].idx)
        /\ pc \in {"ko_solve", "ko_crossover"} => com.knocked = ReactionsOf(loc.idx)
        /\ pc \in {"ko_loop", "done"} => com.knocked = {}

\* the knockout of A, then that of B, whose community growth solve raises
C12_Witness ==
    /\ pc = "done" /\ Knockout
    /\ outcome = "OptimizationError"
    /\ args.species = <<"A", "B">>
    /\ Len(solves) >= 5
    /\ solves[3].knocked = {"rA1", "rA2"}
    /\ solves[Len(solves)].knocked = {"rB1"}
    /\ solves[Len(solves)].status = "error"
    /\ com.knocked = {}

\* the model a logged solver call ran on
EntryModel(e) ==
    [lb |-> e.lb, ub |-> e.ub, objective |-> e.objective, modification |-> NoMarker,
     memberLb |-> e.memberLb, knocked |-> e.knocked]

\* C0: the value the baseline solve of the knockout driver returned
BaselineValue == ObjectiveValue(EntryModel(solves[1]))

\* C13: in every iteration of knockout_species the community growth solve
\* after the knockout runs with the objective "maximize community_objective"
\* and the bounds [0, C0]; the objective then reverts, so the species' solve
\* and a crossover after it run with the L2 objective installed before the
\* loop, in the first iteration and in every later one.
C13_ObjectiveScoped ==
    Knockout =>
        /\ \A k \in 3..Len(solves) :
              LET e == solves[k]
              IN (e.idx >= 1 /\ e.call = "optimize_with_retry") =>
                    /\ e.objective = "community_objective"
                    /\ e.lb = 0
                    /\ e.ub = solves[3].ub
                    \* the solve just made: its upper bound is C0
                    /\ k = Len(solves) => e.ub = Fixed(BaselineValue)
        /\ \A k \in 1..Len(solves) :
              solves[k].call \in {"optimize", "crossover"} => solves[k].objective = "l2"
        /\ pc \in {"ko_loop", "ko_solve", "ko_crossover"} => com.objective = "l2"

\* two iterations, each with its three solver calls
C13_Witness ==
    /\ Returned /\ Knockout
    /\ Len(solves) = 8
    /\ solves[3].objective = "community_objective"
    /\ solves[5].call = "crossover" /\ solves[5].objective = "l2"
    /\ solves[6].objective = "community_objective" /\ solves[6].ub = Fixed(2)
    /\ solves[7].call = "optimize" /\ solves[7].objective = "l2"
    /\ solves[8].call = "crossover" /\ solves[8].objective = "l2"

\* G_sp: the value the community growth solve logged at position k returned
GrowthAfterKnockout(k) == ObjectiveValue(EntryModel(solves[k]))

\* C14: in every iteration the species' solve runs with the bounds
\* [fraction * G_sp, G_sp], G_sp the growth rate of that iteration's own solve
\* after the knockout; when and only when it is not optimal the bounds become
\* [0, fraction * G_sp] and one crossover is called, whose Solution gives the
\* species' row whatever its status.
C14_SpeciesSolve ==
    Knockout =>
        \A k \in 1..Len(solves) :
            LET e == solves[k]
                last == k = Len(solves)
                fraction == args.fraction.vals[1]
            IN /\ (e.idx >= 1 /\ e.call = "optimize") =>
                     /\ solves[k - 1].call = "optimize_with_retry"
                     /\ solves[k - 1].idx = e.idx
                     /\ e.lb * 100 = fraction * e.ub
                     \* the solve just made: its upper bound is G_sp
                     /\ last => e.ub = GrowthAfterKnockout(k - 1) * 10000
                     /\ e.status # OPTIMAL =>
                           /\ last => pc = "ko_crossover"
                           /\ ~last =>
                                 /\ solves[k + 1].call = "crossover"
                                 /\ solves[k + 1].idx = e.idx
                                 /\ solves[k + 1].lb = 0
                                 /\ solves[k + 1].ub = e.lb
                     /\ e.status = OPTIMAL =>
                           /\ loc.results[e.idx] = Transform(args.method, e.rates, loc.old)
                           /\ ~last => (solves[k + 1].call = "optimize_with_retry"
                                        /\ solves[k + 1].idx = e.idx + 1)
               /\ e.call = "crossover" =>
                     /\ solves[k - 1].call = "optimize"
                     /\ solves[k - 1].idx = e.idx
                     /\ solves[k - 1].status # OPTIMAL
                     /\ loc.results[e.idx] = Transform(args.method, e.rates, loc.old)
                     /\ ~last => (solves[k + 1].call = "optimize_with_retry"
                                  /\ solves[k + 1].idx = e.idx + 1)

\* A knocked out, then B: G_sp is 1, then 2; the first species' solve is
\* optimal, the second is recovered by a crossover that is not optimal either
C14_Witness ==
    /\ Returned /\ Knockout
    /\ args.species = <<"A", "B">>
    /\ pre = DefaultModel
    /\ Len(solves) = 7
    /\ solves[4].call = "optimize" /\ solves[4].status = OPTIMAL
    /\ solves[4].lb = 5000 /\ solves[4].ub = 10000
    /\ solves[6].call = "optimize" /\ solves[6].lb = 10000 /\ solves[6].ub = 20000
    /\ solves[7].call = "crossover" /\ solves[7].status = INFEASIBLE
    /\ solves[7].lb = 0 /\ solves[7].ub = 10000

\* number of reversals of the bounds recorded in the history hist
ResetCount(hist) == Count(hist, LAMBDA r : r.kind = "reset_min_community_growth")

\* the running driver has called regularize_l2_norm
Regularized ==
    \/ Tradeoff /\ pc \in {"ct_loop", "ct_crossover"}
    \/ Knockout /\ pc \in {"ko_loop", "ko_solve", "ko_crossover"}

\* C15: regularize_l2_norm sets the lower bound of community_objective to
\* min_growth, replaces the objective and sets the marker "l2 norm".  Called
\* in a scope it records one reversal of the bounds there, and when that scope
\* is left the lower bound is 0 and the upper bound unbounded, whatever was
\* written to them in between; called in no scope it records nothing and the
\* lower bound stays at min_growth.
C15_Regularizer ==
    /\ (pc = "done" /\ args.driver = "regularize_l2_norm") =>
          /\ com.lb = args.min_growth.val * 10000
          /\ com.ub = pre.ub
          /\ com.objective = "l2"
          /\ com.modification = "l2 norm"
          /\ contexts = <<>>
    /\ (Tradeoff /\ pc = "ct_loop" /\ loc.idx = 1) =>
          /\ com.lb = 0
          /\ com.ub = pre.ub
    /\ (Knockout /\ pc = "ko_loop" /\ loc.idx = 1) =>
          /\ com.lb = args.fraction.vals[1] * loc.G * 100
          /\ com.ub = pre.ub
    /\ Regularized =>
          /\ com.modification = "l2 norm"
          /\ ResetCount(contexts[1]) = 1
          /\ \A n \in 2..Len(contexts) : ResetCount(contexts[n]) = 0
          /\ pc \notin {"ko_solve", "ko_crossover"} => com.objective = "l2"
    /\ (pc = "done" /\ Driver /\ (outcome = "returned" \/ Len(solves) >= 2)) =>
          /\ com.lb = 0
          /\ com.ub = None_
          /\ contexts = <<>>

\* the scope left after a crossover had written both bounds
C15_Witness ==
    /\ Returned /\ Tradeoff
    /\ Len(solves) = 3
    /\ solves[3].call = "crossover"
    /\ solves[3].lb = 99 * 100 * 2
    /\ solves[3].ub = 101 * 100 * 2
    /\ com.lb = 0
    /\ com.ub = None_

\* the lower bound left at min_growth by a call made in no scope
C15_WitnessNoScope ==
    /\ pc = "done" /\ args.driver = "regularize_l2_norm"
    /\ pre = DefaultModel
    /\ com.lb = 10000
    /\ contexts = <<>>
====
